---- MODULE Spec2Model ----
(***************************************************************************)
(* Model of the media pipeline of backend/app/services/video_service.py    *)
(* and subtitle_service.py on top of the cached video record:              *)
(*   Spec, SpecDetect, SpecPlan  silence detection (detect_silence), the   *)
(*                 keep-segment planning and the trim/concat filter graph  *)
(*                 (trim_silence);                                         *)
(*   SpecReframe   transform_to_landscape;                                 *)
(*   SpecFrame     sizing and placement of a subtitle bitmap               *)
(*                 (make_subtitle_frame, export_with_subtitles);           *)
(*   SpecWrap      wrap_text;                                              *)
(*   SpecSubtitle  generate_subtitles and its temporary audio file;        *)
(*   SpecPipeline  upload, trim, transform, enhance, export and delete of  *)
(*                 one video, a call at a time, with the files on disk;    *)
(*   SpecInterleave  two invocations for two videos in flight at once;     *)
(*   SpecMerge     the merge route of routes/subtitle.py.                  *)
(* Times are fixed-point ticks (integers); the code's arithmetic on them   *)
(* is +, -, max, min and comparisons only.  Sizes are pixels.              *)
(***************************************************************************)
EXTENDS Integers, Sequences, FiniteSets, TLC

\* ------------------------------------------------------------------ bounds
MaxTime == 2
MaxLines == 4
MaxPad == 1
MaxDur == 3
MaxDim == 4
MaxCanvas == 6
MaxWords == 4
MaxWordWidth == 3

Times == 0..MaxTime
Durations == 0..MaxDur
Paddings == 0..MaxPad
VideoIds == {"v1"}
\* Frame sizes in pixels, and what the probe stores: a real size, or 0 x 0
\* when it fails.
Dims == 1..MaxDim
ProbedSizes == (Dims \X Dims) \cup {<<0, 0>>}
\* Canvas sizes of a clip (clip.w, clip.h), 360 to 360 * MaxCanvas pixels,
\* and heights of a subtitle bitmap, 45 pixels and up.
CanvasSizes == {360 * k : k \in 1..MaxCanvas}
BitmapHeights == {45 * k : k \in 1..(8 * MaxCanvas)}

\* ------------------------------------------------------------ plain values
None == <<>>
Some(x) == <<x>>

Max(a, b) == IF a >= b THEN a ELSE b
Min(a, b) == IF a <= b THEN a ELSE b

\* The text after a marker, split on whitespace: its first part is a number
\* float() accepts, text float() rejects, or there is no part at all.
Tokens == [kind : {"number"}, val : Times]
            \cup {[kind |-> "text", val |-> 0], [kind |-> "absent", val |-> 0]}

\* One line of the engine's diagnostic stream (stderr): which marker it
\* holds, if any, and the token after the marker.
StartMarker == "silence_start:"
EndMarker == "silence_end:"
OtherLine == [marker |-> "", tok |-> [kind |-> "absent", val |-> 0]]
DiagLines == [marker : {StartMarker, EndMarker}, tok : Tokens] \cup {OtherLine}

\* float(line.split(marker)[1].strip().split()[0]): the value, or the
\* exception raised (IndexError without a token, ValueError on text).
ParseFloat(tok) ==
  IF tok.kind = "number" THEN [exc |-> "", val |-> tok.val]
  ELSE IF tok.kind = "absent" THEN [exc |-> "IndexError", val |-> 0]
  ELSE [exc |-> "ValueError", val |-> 0]

\* Variant of Caught: the handler names IndexError only.
CaughtIndexErrorOnly(exc) == exc \in {"IndexError"}

\* except (IndexError, ValueError): pass
Caught(exc) == exc \in {"IndexError", "ValueError"}

\* Variant of ParseLine: the interval is appended as (end_time, start_time).
ParseLineSwapped(st, segs, line) ==
  LET f == ParseFloat(line.tok) IN
  IF line.marker = StartMarker
  THEN IF f.exc = ""
       THEN [start_time |-> Some(f.val), silent_segments |-> segs, exc |-> ""]
       ELSE [start_time |-> st, silent_segments |-> segs,
             exc |-> IF Caught(f.exc) THEN "" ELSE f.exc]
  ELSE IF line.marker = EndMarker /\ st # None
  THEN IF f.exc = ""
       THEN [start_time |-> None,
             silent_segments |-> Append(segs, <<f.val, st[1]>>), exc |-> ""]
       ELSE [start_time |-> st, silent_segments |-> segs,
             exc |-> IF Caught(f.exc) THEN "" ELSE f.exc]
  ELSE [start_time |-> st, silent_segments |-> segs, exc |-> ""]

\* One iteration of the parsing loop of detect_silence, on parser state
\* (start_time, silent_segments): the new state and the exception that
\* escapes the iteration ("" when none does).
ParseLine(st, segs, line) ==
  LET f == ParseFloat(line.tok) IN
  IF line.marker = StartMarker
  THEN IF f.exc = ""
       THEN [start_time |-> Some(f.val), silent_segments |-> segs, exc |-> ""]
       ELSE [start_time |-> st, silent_segments |-> segs,
             exc |-> IF Caught(f.exc) THEN "" ELSE f.exc]
  ELSE IF line.marker = EndMarker /\ st # None
  THEN IF f.exc = ""
       THEN [start_time |-> None,
             silent_segments |-> Append(segs, <<st[1], f.val>>), exc |-> ""]
       ELSE [start_time |-> st, silent_segments |-> segs,
             exc |-> IF Caught(f.exc) THEN "" ELSE f.exc]
  ELSE [start_time |-> st, silent_segments |-> segs, exc |-> ""]

\* ---------------------------------------------------------------- planning
\* Variant of PlanLoop: the cursor moves to the silence end, padding forgotten.
RECURSIVE PlanLoopCursorAtEnd(_, _, _, _, _)
PlanLoopCursorAtEnd(silent, i, cur, keep, pad) ==
  IF i > Len(silent) THEN [keep |-> keep, current_time |-> cur]
  ELSE LET keep_end == silent[i][1] + pad
           keep2 == IF keep_end > cur THEN Append(keep, <<cur, keep_end>>)
                    ELSE keep
       IN PlanLoopCursorAtEnd(silent, i + 1, silent[i][2], keep2, pad)

\* for start, end in silent_segments: ... (the loop of step 1), from
\* position i with cursor current_time and the keep list built so far.
RECURSIVE PlanLoop(_, _, _, _, _)
PlanLoop(silent, i, cur, keep, pad) ==
  IF i > Len(silent) THEN [keep |-> keep, current_time |-> cur]
  ELSE LET keep_end == silent[i][1] + pad
           keep2 == IF keep_end > cur THEN Append(keep, <<cur, keep_end>>)
                    ELSE keep
       IN PlanLoop(silent, i + 1, silent[i][2] - pad, keep2, pad)

\* Variant of KeepSegments: the trailing segment is kept when the cursor is
\* at the duration too (<= for <).
KeepSegmentsInclusive(silent, duration, pad) ==
  LET r == PlanLoop(silent, 1, 0, <<>>, pad) IN
  IF r.current_time <= duration
  THEN Append(r.keep, <<r.current_time, duration>>)
  ELSE r.keep

\* Step 1 of trim_silence: the keep segments and the final cursor.
KeepSegments(silent, duration, pad) ==
  LET r == PlanLoop(silent, 1, 0, <<>>, pad) IN
  IF r.current_time < duration
  THEN Append(r.keep, <<r.current_time, duration>>)
  ELSE r.keep

\* ------------------------------------------------------------ filter graph
\* Variant of VLabel: the index is left out of the label.
VLabelFixed(i) == <<"v", 0>>

VLabel(i) == <<"v", i>>
ALabel(i) == <<"a", i>>

TrimNode(s, e, i) ==
  [op |-> "trim", src |-> "0:v", start |-> s, end |-> e, out |-> VLabel(i)]
ATrimNode(s, e, i) ==
  [op |-> "atrim", src |-> "0:a", start |-> s, end |-> e, out |-> ALabel(i)]
ConcatNode(cv, ca) ==
  [op |-> "concat", inputs |-> cv \o ca, n |-> Len(cv), out |-> <<"outv", "outa">>]

ClampStart(s) == Max(0, s)

\* Variant of ClampEnd: the end is not clamped to the duration.
ClampEndMissing(duration, e) == e

ClampEnd(duration, e) == Min(duration, e)

\* for i, (start, end) in enumerate(keep_segments): ... (step 2); i counts
\* from 0 in the code and from 1 here, so the label index is i - 1.
RECURSIVE GraphLoop(_, _, _, _, _, _)
GraphLoop(keep, i, duration, parts, cv, ca) ==
  IF i > Len(keep)
  THEN [filter_parts |-> parts, concat_v |-> cv, concat_a |-> ca]
  ELSE LET s == ClampStart(keep[i][1])
           e == ClampEnd(duration, keep[i][2])
       IN IF s >= e
          THEN GraphLoop(keep, i + 1, duration, parts, cv, ca)
          ELSE GraphLoop(keep, i + 1, duration,
                         parts \o <<TrimNode(s, e, i - 1), ATrimNode(s, e, i - 1)>>,
                         Append(cv, VLabel(i - 1)), Append(ca, ALabel(i - 1)))

\* Variant of BuildTrimGraph: the keep list is sorted by start time first.
RECURSIVE SortedByStart(_)
SortedByStart(q) ==
  IF q = <<>> THEN <<>>
  ELSE LET k == CHOOSE a \in 1..Len(q) :
                  \A b \in 1..Len(q) : q[a][1] < q[b][1] \/ (q[a][1] = q[b][1] /\ a <= b)
       IN <<q[k]>> \o SortedByStart(SubSeq(q, 1, k - 1) \o SubSeq(q, k + 1, Len(q)))
BuildTrimGraphSorted(keep, duration) ==
  GraphLoop(SortedByStart(keep), 1, duration, <<>>, <<>>, <<>>)

BuildTrimGraph(keep, duration) == GraphLoop(keep, 1, duration, <<>>, <<>>, <<>>)

\* ------------------------------------------------------------------- state
VARIABLES
  cache,             \* cache_service: video id -> stored record
  pc,                \* where the running call is (idle, detect, detected, engine, ...)
  video_id,          \* id the running call was made for
  video,             \* the call's copy of the record (get_video), or None
  lines,             \* diagnostic lines read so far (kept by SpecDetect)
  nread,             \* number of diagnostic lines read so far
  start_time,        \* pending silence start of the parser, or None
  silent_segments,   \* intervals emitted by the parser
  padding,           \* padding of the running call
  original_duration, \* video.metadata.duration read at the start of planning
  keep_segments,
  filter_parts,
  concat_v,
  concat_a,
  engine_ran,        \* the trim engine process was started by this call
  result,            \* value returned by trim_silence, or None
  raised,            \* exception that escaped the call ("" when none)
  files,             \* paths on disk (kept by SpecReframe and SpecSubtitle)
  target_width,      \* transform_to_landscape: arguments and locals
  target_height,
  scaled_width,
  scaled_height,
  video_width,       \* make_subtitle_frame: canvas and sizing
  video_height,
  is_landscape,
  base_font_size,
  max_text_width,
  text,              \* wrap_text: the words of the subtitle text
  wrapped,           \* wrap_text: the lines it returned, or None
  img_height,        \* height of the subtitle bitmap
  y_position,        \* vertical position of the overlay
  video_duration,    \* generate_subtitles: locals and the setting it reads
  groq_api_key,
  subtitles,
  request            \* merge_subtitles: the request of the call, or None

vars == <<cache, pc, video_id, video, lines, nread, start_time, silent_segments,
          padding, original_duration, keep_segments, filter_parts, concat_v,
          concat_a, engine_ran, result, raised, files, target_width,
          target_height, scaled_width, scaled_height, video_width, video_height,
          is_landscape, base_font_size, max_text_width, text, wrapped,
          img_height, y_position, video_duration, groq_api_key, subtitles,
          request>>

parser == <<start_time, silent_segments, nread>>
plan == <<padding, original_duration, keep_segments, filter_parts, concat_v, concat_a>>
trimming == <<lines, parser, plan>>
reframing == <<target_width, target_height, scaled_width, scaled_height>>
framing == <<video_width, video_height, is_landscape, base_font_size, max_text_width,
             text, wrapped, img_height, y_position>>
transcribing == <<video_duration, groq_api_key, subtitles, request>>
\* What trim_silence and detect_silence never touch.
other_services == <<files, reframing, framing, transcribing>>

UploadName(id) == <<id, ".mp4">>
TrimmedName(id) == <<id, "_trimmed.mp4">>

Record(id, duration) == [filename |-> UploadName(id), duration |-> duration]

EmptyCache == [id \in {} |-> Record("v1", 0)]

\* The locals of the operations that are not running.
NoTrimming ==
  /\ lines = <<>>
  /\ nread = 0
  /\ start_time = None
  /\ silent_segments = <<>>
  /\ padding = 0
  /\ original_duration = 0
  /\ keep_segments = <<>>
  /\ filter_parts = <<>>
  /\ concat_v = <<>>
  /\ concat_a = <<>>

NoReframing ==
  /\ target_width = 0
  /\ target_height = 0
  /\ scaled_width = 0
  /\ scaled_height = 0

NoFraming ==
  /\ video_width = 0
  /\ video_height = 0
  /\ is_landscape = FALSE
  /\ base_font_size = 0
  /\ max_text_width = 0
  /\ text = <<>>
  /\ wrapped = None
  /\ img_height = 0
  /\ y_position = 0

NoTranscribing ==
  /\ video_duration = 0
  /\ groq_api_key = FALSE
  /\ subtitles = None
  /\ request = None

OtherServicesIdle == files = {} /\ NoReframing /\ NoFraming /\ NoTranscribing

Init ==
  /\ cache = EmptyCache
  /\ pc = "idle"
  /\ video_id = "v1"
  /\ video = None
  /\ lines = <<>>
  /\ nread = 0
  /\ start_time = None
  /\ silent_segments = <<>>
  /\ padding = 0
  /\ original_duration = 0
  /\ keep_segments = <<>>
  /\ filter_parts = <<>>
  /\ concat_v = <<>>
  /\ concat_a = <<>>
  /\ engine_ran = FALSE
  /\ result = None
  /\ raised = ""
  /\ OtherServicesIdle

\* save_uploaded_video: a fresh id, the probed duration (0 when the probe fails).
SaveUploadedVideo ==
  /\ UNCHANGED other_services
  /\ pc = "idle"
  /\ \E id \in VideoIds \ DOMAIN cache : \E d \in Durations :
       cache' = [x \in DOMAIN cache \cup {id} |->
                   IF x = id THEN Record(id, d) ELSE cache[x]]
  /\ UNCHANGED <<pc, video_id, video, lines, parser, plan, engine_ran, result, raised>>

\* The locals of a call as they are when the call begins.
FreshCall(id) ==
  /\ video_id' = id
  /\ lines' = <<>>
  /\ nread' = 0
  /\ start_time' = None
  /\ silent_segments' = <<>>
  /\ padding' = 0
  /\ original_duration' = 0
  /\ keep_segments' = <<>>
  /\ filter_parts' = <<>>
  /\ concat_v' = <<>>
  /\ concat_a' = <<>>
  /\ engine_ran' = FALSE
  /\ result' = None

\* get_video: the cached record, or None.
GetVideo(id) == IF id \in DOMAIN cache THEN Some(cache[id]) ELSE None

\* trim_silence on an id the cache does not hold: raise ValueError.
TrimSilenceNotFound ==
  /\ UNCHANGED other_services
  /\ pc = "idle"
  /\ \E id \in VideoIds \ DOMAIN cache : FreshCall(id) /\ video' = GetVideo(id)
  /\ raised' = "ValueError"
  /\ UNCHANGED <<cache, pc>>

\* trim_silence up to the start of the parsing loop of detect_silence.
TrimSilence ==
  /\ UNCHANGED other_services
  /\ pc = "idle"
  /\ \E id \in DOMAIN cache : FreshCall(id) /\ video' = GetVideo(id)
  /\ raised' = ""
  /\ pc' = "detect"
  /\ UNCHANGED cache

\* trim_silence when the analysis process of detect_silence cannot be
\* started: subprocess.run raises and nothing catches it.
TrimDetectNotLaunched ==
  /\ UNCHANGED other_services
  /\ pc = "idle"
  /\ \E id \in DOMAIN cache : FreshCall(id) /\ video' = GetVideo(id)
  /\ raised' = "FileNotFoundError"
  /\ UNCHANGED <<cache, pc>>

\* One iteration of "for line in lines" on the next line of the stream.
TrimDetectLine ==
  /\ UNCHANGED other_services
  /\ pc = "detect"
  /\ nread < MaxLines
  /\ \E line \in DiagLines :
       LET r == ParseLine(start_time, silent_segments, line) IN
       /\ start_time' = r.start_time
       /\ silent_segments' = r.silent_segments
       /\ raised' = r.exc
       /\ pc' = IF r.exc = "" THEN "detect" ELSE "idle"
  /\ nread' = nread + 1
  /\ UNCHANGED <<cache, video_id, video, lines, plan, engine_ran, result>>

\* The stream ends: detect_silence returns silent_segments.
DetectReturn ==
  /\ UNCHANGED other_services
  /\ pc = "detect"
  /\ pc' = "detected"
  /\ UNCHANGED <<cache, video_id, video, lines, parser, plan, engine_ran, result, raised>>

Returned(orig, new, removed) ==
  Some([original_duration |-> orig, new_duration |-> new, segments_removed |-> removed])

\* if not silent_segments / if not keep_segments / if not concat_v
NoSilence(segs) == segs = <<>>
NoKeep(keep) == keep = <<>>
\* Variant of NoNodes: the check after the clamp is left out.
NoNodesUnchecked(cv) == FALSE

NoNodes(cv) == cv = <<>>

\* trim_silence from the return of detect_silence to the engine command:
\* the early return, step 1 (keep segments), step 2 (filter graph).  The
\* padding argument is drawn here, where the code first reads it.
TrimPlan ==
  /\ UNCHANGED other_services
  /\ pc = "detected"
  /\ \E pad \in Paddings :
       LET d == video[1].duration
           keep == KeepSegments(silent_segments, d, pad)
           g == BuildTrimGraph(keep, d)
       IN
       /\ original_duration' = d
       /\ IF NoSilence(silent_segments)
          THEN /\ result' = Returned(d, d, 0)
               /\ pc' = "idle"
               /\ UNCHANGED <<padding, keep_segments, filter_parts, concat_v, concat_a>>
          ELSE /\ padding' = pad
               /\ keep_segments' = keep
               /\ IF NoKeep(keep)
                  THEN /\ result' = Returned(d, d, Len(silent_segments))
                       /\ pc' = "idle"
                       /\ UNCHANGED <<filter_parts, concat_v, concat_a>>
                  ELSE /\ concat_v' = g.concat_v
                       /\ concat_a' = g.concat_a
                       /\ IF NoNodes(g.concat_v)
                          THEN /\ filter_parts' = g.filter_parts
                               /\ result' = Returned(d, d, Len(silent_segments))
                               /\ pc' = "idle"
                          ELSE /\ filter_parts' =
                                    Append(g.filter_parts, ConcatNode(g.concat_v, g.concat_a))
                               /\ result' = None
                               /\ pc' = "engine"
  /\ UNCHANGED <<cache, video_id, video, lines, parser, engine_ran, raised>>

\* The engine exits 0: probe the trimmed file (duration 0 when the probe
\* fails), point the record at it and store the record (update_video).
TrimEngineOk ==
  /\ UNCHANGED other_services
  /\ pc = "engine"
  /\ engine_ran' = TRUE
  /\ \E new \in Durations :
       LET updated == [filename |-> TrimmedName(video_id), duration |-> new] IN
       /\ video' = Some(updated)
       /\ cache' = [cache EXCEPT ![video_id] = updated]
       /\ result' = Returned(original_duration, new, Len(silent_segments))
  /\ pc' = "idle"
  /\ UNCHANGED <<video_id, lines, parser, plan, raised>>

\* The engine exits non-zero (CalledProcessError): the fallback return.
TrimEngineFailed ==
  /\ UNCHANGED other_services
  /\ pc = "engine"
  /\ engine_ran' = TRUE
  /\ result' = Returned(original_duration, original_duration, 0)
  /\ pc' = "idle"
  /\ UNCHANGED <<cache, video_id, video, lines, parser, plan, raised>>

\* The engine process cannot be started: subprocess.run raises an error
\* that is not CalledProcessError, so it leaves trim_silence.
TrimEngineNotLaunched ==
  /\ UNCHANGED other_services
  /\ pc = "engine"
  /\ raised' = "FileNotFoundError"
  /\ pc' = "idle"
  /\ UNCHANGED <<cache, video_id, video, lines, parser, plan, engine_ran, result>>

Next ==
  \/ SaveUploadedVideo
  \/ TrimSilenceNotFound
  \/ TrimSilence
  \/ TrimDetectNotLaunched
  \/ TrimEngineNotLaunched
  \/ TrimDetectLine
  \/ DetectReturn
  \/ TrimPlan
  \/ TrimEngineOk
  \/ TrimEngineFailed

Spec == Init /\ [][Next]_vars

\* ------------------------------------------------------------- SpecDetect
\* detect_silence on an uploaded video, with the diagnostic lines it has
\* read kept in `lines`.
InitDetect ==
  /\ cache = [id \in {"v1"} |-> Record(id, MaxDur)]
  /\ pc = "idle"
  /\ video_id = "v1"
  /\ video = None
  /\ lines = <<>>
  /\ nread = 0
  /\ start_time = None
  /\ silent_segments = <<>>
  /\ padding = 0
  /\ original_duration = 0
  /\ keep_segments = <<>>
  /\ filter_parts = <<>>
  /\ concat_v = <<>>
  /\ concat_a = <<>>
  /\ engine_ran = FALSE
  /\ result = None
  /\ raised = ""
  /\ OtherServicesIdle

\* detect_silence up to the start of its parsing loop.
DetectSilence ==
  /\ UNCHANGED other_services
  /\ pc \in {"idle", "detected"}
  /\ \E id \in DOMAIN cache : FreshCall(id) /\ video' = GetVideo(id)
  /\ raised' = ""
  /\ pc' = "detect"
  /\ UNCHANGED cache

\* One iteration of "for line in lines", the line read being recorded.
DetectLine ==
  /\ UNCHANGED other_services
  /\ pc = "detect"
  /\ nread < MaxLines
  /\ \E line \in DiagLines :
       LET r == ParseLine(start_time, silent_segments, line) IN
       /\ lines' = Append(lines, line)
       /\ start_time' = r.start_time
       /\ silent_segments' = r.silent_segments
       /\ raised' = r.exc
       /\ pc' = IF r.exc = "" THEN "detect" ELSE "idle"
  /\ nread' = nread + 1
  /\ UNCHANGED <<cache, video_id, video, plan, engine_ran, result>>

NextDetect ==
  \/ DetectSilence
  \/ DetectLine
  \/ DetectReturn

SpecDetect == InitDetect /\ [][NextDetect]_vars

\* --------------------------------------------------------------- SpecPlan
\* The planning step (step 1 of trim_silence) applied to every silence
\* list, duration and padding within the bounds.
RECURSIVE SeqsUpTo(_, _)
SeqsUpTo(S, n) ==
  IF n = 0 THEN {<<>>}
  ELSE LET shorter == SeqsUpTo(S, n - 1) IN
       shorter \cup {Append(q, x) : q \in shorter, x \in S}

InitPlan ==
  /\ cache = [id \in {"v1"} |-> Record(id, MaxDur)]
  /\ pc = "plan"
  /\ video_id = "v1"
  /\ video = None
  /\ lines = <<>>
  /\ nread = 0
  /\ start_time = None
  /\ silent_segments \in SeqsUpTo(Durations \X Durations, MaxLines \div 2)
  /\ padding \in Paddings
  /\ original_duration \in Durations
  /\ keep_segments = <<>>
  /\ filter_parts = <<>>
  /\ concat_v = <<>>
  /\ concat_a = <<>>
  /\ engine_ran = FALSE
  /\ result = None
  /\ raised = ""
  /\ OtherServicesIdle

PlanKeepSegments ==
  /\ UNCHANGED other_services
  /\ pc = "plan"
  /\ keep_segments' = KeepSegments(silent_segments, original_duration, padding)
  /\ pc' = "planned"
  /\ UNCHANGED <<cache, video_id, video, lines, parser, padding, original_duration,
                 filter_parts, concat_v, concat_a, engine_ran, result, raised>>

NextPlan == PlanKeepSegments

SpecPlan == InitPlan /\ [][NextPlan]_vars

\* ------------------------------------------------------------ SpecReframe
\* transform_to_landscape on a video whose probed size is any of
\* ProbedSizes, for every positive target size within the bounds.
LandscapeName(id) == <<id, "_landscape.mp4">>

\* settings.UPLOAD_DIR / name
UploadPath(name) == <<"UPLOAD_DIR", name>>
\* get_video_path
GetVideoPath(v) == UploadPath(v.filename)

SizedRecord(id, w, h) == [filename |-> UploadName(id), width |-> w, height |-> h]

\* Variant of IsAlreadyLandscape: a square frame is not taken as landscape.
IsAlreadyLandscapeStrict(w, h) == w > h

\* if original_width >= original_height
IsAlreadyLandscape(w, h) == w >= h

\* min(target_width / original_width, target_height / original_height), as
\* the fraction num / den.
ScaleFactor(ow, oh, tw, th) ==
  IF tw * oh <= th * ow THEN [num |-> tw, den |-> ow] ELSE [num |-> th, den |-> oh]

\* int(x * scale_factor)
IntScaled(x, sf) == (x * sf.num) \div sf.den

\* Variant of RoundToEven: the size is left as int() gave it.
RoundToEvenSkipped(n) == n

\* n if n % 2 == 0 else n - 1
RoundToEven(n) == IF n % 2 = 0 THEN n ELSE n - 1

\* (scaled_width, scaled_height) of a source ow x oh in a target tw x th.
ScaledSize(ow, oh, tw, th) ==
  LET sf == ScaleFactor(ow, oh, tw, th) IN
  <<RoundToEven(IntScaled(ow, sf)), RoundToEven(IntScaled(oh, sf))>>

InitReframe ==
  /\ \/ cache = EmptyCache /\ files = {}
     \/ \E size \in ProbedSizes :
          /\ cache = [id \in {"v1"} |-> SizedRecord(id, size[1], size[2])]
          /\ files = {UploadPath(UploadName("v1"))}
  /\ pc = "idle"
  /\ video_id = "v1"
  /\ video = None
  /\ engine_ran = FALSE
  /\ result = None
  /\ raised = ""
  /\ NoTrimming
  /\ NoReframing
  /\ NoFraming
  /\ NoTranscribing

\* transform_to_landscape on an id the cache does not hold: raise ValueError.
TransformNotFound ==
  /\ pc = "idle"
  /\ \E id \in VideoIds \ DOMAIN cache, tw \in Dims, th \in Dims :
       /\ video_id' = id
       /\ video' = GetVideo(id)
       /\ target_width' = tw
       /\ target_height' = th
  /\ scaled_width' = 0
  /\ scaled_height' = 0
  /\ engine_ran' = FALSE
  /\ result' = None
  /\ raised' = "ValueError"
  /\ UNCHANGED <<cache, pc, files, trimming, framing, transcribing>>

\* transform_to_landscape up to the engine command: the early return for a
\* frame that is already landscape, else the scaled size.  A portrait frame
\* of width 0 would make the division raise.
TransformToLandscape ==
  /\ pc = "idle"
  /\ \E id \in DOMAIN cache, tw \in Dims, th \in Dims :
       LET original_width == cache[id].width
           original_height == cache[id].height
           scaled == ScaledSize(original_width, original_height, tw, th)
       IN
       /\ video_id' = id
       /\ video' = GetVideo(id)
       /\ target_width' = tw
       /\ target_height' = th
       /\ engine_ran' = FALSE
       /\ IF IsAlreadyLandscape(original_width, original_height)
          THEN /\ result' = Some(<<original_width, original_height,
                                   original_width, original_height>>)
               /\ raised' = ""
               /\ scaled_width' = 0
               /\ scaled_height' = 0
               /\ pc' = "idle"
          ELSE IF original_width = 0 \/ original_height = 0
          THEN /\ result' = None
               /\ raised' = "ZeroDivisionError"
               /\ scaled_width' = 0
               /\ scaled_height' = 0
               /\ pc' = "idle"
          ELSE /\ result' = None
               /\ raised' = ""
               /\ scaled_width' = scaled[1]
               /\ scaled_height' = scaled[2]
               /\ pc' = "reframe"
  /\ UNCHANGED <<cache, files, trimming, framing, transcribing>>

\* The engine exits 0: probe the landscape file (0 x 0 when the probe
\* fails), point the record at it and store the record (update_video).
TransformEngineOk ==
  /\ pc = "reframe"
  /\ engine_ran' = TRUE
  /\ files' = files \cup {UploadPath(LandscapeName(video_id))}
  /\ \E new \in {<<target_width, target_height>>, <<0, 0>>} :
       LET updated == [filename |-> LandscapeName(video_id),
                       width |-> new[1], height |-> new[2]] IN
       /\ video' = Some(updated)
       /\ cache' = [cache EXCEPT ![video_id] = updated]
       /\ result' = Some(<<video[1].width, video[1].height, new[1], new[2]>>)
  /\ pc' = "idle"
  /\ UNCHANGED <<video_id, raised, reframing, trimming, framing, transcribing>>

\* The engine exits non-zero (CalledProcessError): an Exception carrying
\* the engine's stderr is raised.  Whatever the engine wrote of the output
\* file stays on disk.
TransformEngineFailed ==
  /\ pc = "reframe"
  /\ engine_ran' = TRUE
  /\ raised' = "Exception: Failed to transform video: stderr"
  /\ \E partial \in SUBSET {UploadPath(LandscapeName(video_id))} :
       files' = files \cup partial
  /\ pc' = "idle"
  /\ UNCHANGED <<cache, video_id, video, result, reframing, trimming, framing,
                 transcribing>>

\* The engine process cannot be started: the error is not a
\* CalledProcessError and leaves transform_to_landscape as it is.
TransformEngineNotLaunched ==
  /\ pc = "reframe"
  /\ raised' = "FileNotFoundError"
  /\ pc' = "idle"
  /\ UNCHANGED <<cache, video_id, video, engine_ran, result, files, reframing,
                 trimming, framing, transcribing>>

NextReframe ==
  \/ TransformNotFound
  \/ TransformToLandscape
  \/ TransformEngineOk
  \/ TransformEngineFailed
  \/ TransformEngineNotLaunched

SpecReframe == InitReframe /\ [][NextReframe]_vars

\* -------------------------------------------------------------- SpecFrame
\* The sizing of make_subtitle_frame and the vertical placement of its
\* bitmap, for every canvas in CanvasSizes.  The bitmap's height comes from
\* the glyph metrics of the font in use; it is drawn from BitmapHeights.

\* int(x * p / 1000) for x >= 0: int(x * 0.022), int(x * 0.85), ...
IntPermille(x, p) == (x * p) \div 1000

\* is_landscape = video_width > video_height
IsLandscape(w, h) == w > h

BaseFontSize(w, h) ==
  IF IsLandscape(w, h) THEN Max(36, IntPermille(w, 22)) ELSE Max(28, IntPermille(h, 28))

MaxTextWidth(w, h) ==
  IF IsLandscape(w, h) THEN IntPermille(w, 850) ELSE IntPermille(w, 900)

\* bottom_margin = max(60, int(clip.h * 0.08))
BottomMargin(h) == Max(60, IntPermille(h, 80))

\* Variant of ClampIntoFrame: the position is used as computed.
ClampIntoFrameSkipped(y, clip_h, bitmap_h) == y

\* max(0, min(y_position, clip.h - subtitle_img.shape[0]))
ClampIntoFrame(y, clip_h, bitmap_h) == Max(0, Min(y, clip_h - bitmap_h))

YPosition(clip_h, bitmap_h) ==
  ClampIntoFrame(clip_h - bitmap_h - BottomMargin(clip_h), clip_h, bitmap_h)

InitFrame ==
  /\ cache = EmptyCache
  /\ files = {}
  /\ pc = "frame"
  /\ video_id = "v1"
  /\ video = None
  /\ engine_ran = FALSE
  /\ result = None
  /\ raised = ""
  /\ NoTrimming
  /\ NoReframing
  /\ NoTranscribing
  /\ video_width \in CanvasSizes
  /\ video_height \in CanvasSizes
  /\ is_landscape = FALSE
  /\ base_font_size = 0
  /\ max_text_width = 0
  /\ text = <<>>
  /\ wrapped = None
  /\ img_height = 0
  /\ y_position = 0

\* make_subtitle_frame: orientation, font size, text budget, and the
\* height of the bitmap it returns.
MakeSubtitleFrame ==
  /\ pc = "frame"
  /\ is_landscape' = IsLandscape(video_width, video_height)
  /\ base_font_size' = BaseFontSize(video_width, video_height)
  /\ max_text_width' = MaxTextWidth(video_width, video_height)
  /\ img_height' \in BitmapHeights
  /\ pc' = "framed"
  /\ UNCHANGED <<cache, files, video_id, video, engine_ran, result, raised, trimming,
                 reframing, transcribing, video_width, video_height, text, wrapped,
                 y_position>>

\* The overlay's vertical position (lines 511-514).
PlaceOverlay ==
  /\ pc = "framed"
  /\ y_position' = YPosition(video_height, img_height)
  /\ pc' = "placed"
  /\ UNCHANGED <<cache, files, video_id, video, engine_ran, result, raised, trimming,
                 reframing, transcribing, video_width, video_height, is_landscape,
                 base_font_size, max_text_width, text, wrapped, img_height>>

NextFrame ==
  \/ MakeSubtitleFrame
  \/ PlaceOverlay

SpecFrame == InitFrame /\ [][NextFrame]_vars

\* --------------------------------------------------------------- SpecWrap
\* wrap_text on every text of up to MaxWords words and every budget.  A
\* string is the sequence of its tokens: a word, named by the width the
\* glyph source measures for it (1..MaxWordWidth), or a space.
Space == 0
Words == 1..MaxWordWidth
Budgets == 0..(3 * MaxWordWidth)

\* ' '.join(words)
RECURSIVE Join(_)
Join(ws) ==
  IF ws = <<>> THEN <<>>
  ELSE IF Len(ws) = 1 THEN <<ws[1]>>
  ELSE <<ws[1], Space>> \o Join(Tail(ws))

\* text.split()
Split(str) == SelectSeq(str, LAMBDA tok : tok # Space)

\* bbox[2] - bbox[0] of textbbox: the widths of the tokens added up, a
\* space being one unit wide.
RECURSIVE TextWidth(_)
TextWidth(str) ==
  IF str = <<>> THEN 0
  ELSE (IF Head(str) = Space THEN 1 ELSE Head(str)) + TextWidth(Tail(str))

Texts == {Join(ws) : ws \in SeqsUpTo(Words, MaxWords)}

\* Variant of Fits: a line as wide as the budget does not fit.
FitsStrictly(line_width, max_width) == line_width < max_width

\* if line_width <= max_width
Fits(line_width, max_width) == line_width <= max_width

\* if current_line: lines.append(' '.join(current_line)), inside the loop
CloseLine(lines_out, current_line) ==
  IF current_line # <<>> THEN Append(lines_out, Join(current_line)) ELSE lines_out

\* Variant of CloseLast: the words still in current_line are not emitted.
CloseLastDropped(lines_out, current_line) == lines_out

\* if current_line: lines.append(' '.join(current_line)), after the loop
CloseLast(lines_out, current_line) ==
  IF current_line # <<>> THEN Append(lines_out, Join(current_line)) ELSE lines_out

\* for word in words
RECURSIVE WrapLoop(_, _, _, _, _)
WrapLoop(words, i, lines_out, current_line, max_width) ==
  IF i > Len(words) THEN [lines |-> lines_out, current_line |-> current_line]
  ELSE LET word == words[i]
           test_line == Join(Append(current_line, word))
           line_width == TextWidth(test_line)
       IN
       IF Fits(line_width, max_width)
       THEN WrapLoop(words, i + 1, lines_out, Append(current_line, word), max_width)
       ELSE WrapLoop(words, i + 1, CloseLine(lines_out, current_line), <<word>>,
                     max_width)

\* wrap_text(text, font, max_width)
WrapText(str, max_width) ==
  LET r == WrapLoop(Split(str), 1, <<>>, <<>>, max_width)
      lines_out == CloseLast(r.lines, r.current_line)
  IN
  IF lines_out # <<>> THEN lines_out ELSE <<str>>

InitWrap ==
  /\ cache = EmptyCache
  /\ files = {}
  /\ pc = "wrap"
  /\ video_id = "v1"
  /\ video = None
  /\ engine_ran = FALSE
  /\ result = None
  /\ raised = ""
  /\ NoTrimming
  /\ NoReframing
  /\ NoTranscribing
  /\ video_width = 0
  /\ video_height = 0
  /\ is_landscape = FALSE
  /\ base_font_size = 0
  /\ max_text_width \in Budgets
  /\ text \in Texts
  /\ wrapped = None
  /\ img_height = 0
  /\ y_position = 0

\* lines = wrap_text(text, font, max_text_width)
WrapLines ==
  /\ pc = "wrap"
  /\ wrapped' = Some(WrapText(text, max_text_width))
  /\ pc' = "wrapped"
  /\ UNCHANGED <<cache, files, video_id, video, engine_ran, result, raised, trimming,
                 reframing, transcribing, video_width, video_height, is_landscape,
                 base_font_size, max_text_width, text, img_height, y_position>>

NextWrap == WrapLines

SpecWrap == InitWrap /\ [][NextWrap]_vars

\* ----------------------------------------------------------- SpecSubtitle
\* The subtitle route on an uploaded video, with all of
\* SubtitleService.generate_subtitles: the duration probe, the audio
\* extraction into a temporary file, the transcription when an API key is
\* configured, the mock fallback, and the record stored with the result.
DefaultDuration == 30

\* settings.TEMP_DIR / f"{video_id}_audio.mp3"
AudioPath(id) == <<"TEMP_DIR", <<id, "_audio.mp3">>>>

\* _cleanup_audio: remove the file if it exists.
CleanupAudio(on_disk, audio_path) == on_disk \ {audio_path}

\* What generate_subtitles returns: the transcription's segments, or the
\* segments of _generate_mock_subtitles.
Transcribed == Some("transcribed")
MockSubtitles == Some("mock")

\* A record as uploaded: no subtitles yet.
SubtitledRecord(id, duration) ==
  [filename |-> UploadName(id), duration |-> duration, subtitles |-> <<>>]

\* video.subtitles = subtitles; update_video(video)
StoreSubtitles(id, subs) == [cache EXCEPT ![id].subtitles = subs[1]]

InitSubtitle ==
  /\ \E d \in Durations : cache = [id \in {"v1"} |-> SubtitledRecord(id, d)]
  /\ files = {UploadPath(UploadName("v1"))}
  /\ pc = "idle"
  /\ video_id = "v1"
  /\ video = None
  /\ engine_ran = FALSE
  /\ result = None
  /\ raised = ""
  /\ NoTrimming
  /\ NoReframing
  /\ NoFraming
  /\ video_duration = 0
  /\ groq_api_key \in BOOLEAN
  /\ subtitles = None
  /\ request = None

\* generate_subtitles up to the extraction command: the probed duration of
\* the file, or the default when the probe fails or reports none.
GenerateSubtitles ==
  /\ pc = "idle"
  /\ \E id \in DOMAIN cache :
       /\ GetVideoPath(cache[id]) \in files
       /\ video_id' = id
       /\ video' = GetVideo(id)
       /\ video_duration' \in {cache[id].duration, DefaultDuration}
  /\ subtitles' = None
  /\ pc' = "extract"
  /\ UNCHANGED <<cache, files, engine_ran, result, raised, trimming, reframing,
                 framing, groq_api_key, request>>

\* The extraction exits 0 and the audio file exists.  Without an API key
\* the fallback follows at once: the file is removed and the mock segments
\* are returned.
ExtractOk ==
  /\ pc = "extract"
  /\ IF groq_api_key
     THEN /\ files' = files \cup {AudioPath(video_id)}
          /\ pc' = "transcribe"
          /\ UNCHANGED <<cache, subtitles>>
     ELSE /\ files' = CleanupAudio(files \cup {AudioPath(video_id)}, AudioPath(video_id))
          /\ subtitles' = MockSubtitles
          /\ cache' = StoreSubtitles(video_id, MockSubtitles)
          /\ pc' = "idle"
  /\ UNCHANGED <<video_id, video, engine_ran, result, raised, trimming,
                 reframing, framing, video_duration, groq_api_key, request>>

\* The extraction exits non-zero: the mock segments are returned at once.
\* Whatever the engine wrote of the audio file stays on disk.
ExtractFailed ==
  /\ pc = "extract"
  /\ \E partial \in SUBSET {AudioPath(video_id)} : files' = files \cup partial
  /\ subtitles' = MockSubtitles
  /\ cache' = StoreSubtitles(video_id, MockSubtitles)
  /\ pc' = "idle"
  /\ UNCHANGED <<video_id, video, engine_ran, result, raised, trimming,
                 reframing, framing, video_duration, groq_api_key, request>>

\* The extraction process cannot be started: the exception is caught and
\* the mock segments are returned.
ExtractNotLaunched ==
  /\ pc = "extract"
  /\ subtitles' = MockSubtitles
  /\ cache' = StoreSubtitles(video_id, MockSubtitles)
  /\ pc' = "idle"
  /\ UNCHANGED <<files, video_id, video, engine_ran, result, raised, trimming,
                 reframing, framing, video_duration, groq_api_key, request>>

\* The transcription returns segments: clean up and return them.
TranscribeOk ==
  /\ pc = "transcribe"
  /\ files' = CleanupAudio(files, AudioPath(video_id))
  /\ subtitles' = Transcribed
  /\ cache' = StoreSubtitles(video_id, Transcribed)
  /\ pc' = "idle"
  /\ UNCHANGED <<video_id, video, engine_ran, result, raised, trimming,
                 reframing, framing, video_duration, groq_api_key, request>>

\* The transcription returns no segment, or raises: clean up, then the
\* fallback cleans up again and returns the mock segments.
TranscribeEmptyOrError ==
  /\ pc = "transcribe"
  /\ files' = CleanupAudio(CleanupAudio(files, AudioPath(video_id)), AudioPath(video_id))
  /\ subtitles' = MockSubtitles
  /\ cache' = StoreSubtitles(video_id, MockSubtitles)
  /\ pc' = "idle"
  /\ UNCHANGED <<video_id, video, engine_ran, result, raised, trimming,
                 reframing, framing, video_duration, groq_api_key, request>>

NextSubtitle ==
  \/ GenerateSubtitles
  \/ ExtractOk
  \/ ExtractFailed
  \/ ExtractNotLaunched
  \/ TranscribeOk
  \/ TranscribeEmptyOrError

SpecSubtitle == InitSubtitle /\ [][NextSubtitle]_vars

\* ----------------------------------------------------------- SpecPipeline
\* The operations of VideoService on one video, a call at a time: upload,
\* trim_silence, transform_to_landscape, enhance_audio,
\* export_with_subtitles, delete_video, and the subtitle route that stores
\* a subtitle list.  Each action is a whole call, with the outcome of the
\* engine and of the probe chosen by the environment; export is split at
\* the point where it has stored status EXPORTING.  The locals of a call
\* are gone when it has returned.

\* What ffprobe does for get_video_metadata: it fails (process error or
\* output that cannot be parsed, nothing usable read), or reports a
\* duration and a frame size.
ProbeOutcomes ==
  [ok : {TRUE}, duration : {1, MaxDur}, size : {<<1, 2>>, <<2, 1>>}]
    \cup {[ok |-> FALSE, duration |-> MaxDur, size |-> <<1, 2>>]}

\* get_video_metadata: the probed values, or 0 / 0 x 0 when the probe fails.
GetVideoMetadata(probe) ==
  IF probe.ok
  THEN [duration |-> probe.duration, width |-> probe.size[1], height |-> probe.size[2]]
  ELSE [duration |-> 0, width |-> 0, height |-> 0]

\* The Video record save_uploaded_video creates.
VideoRecord(id, metadata) ==
  [filename |-> UploadName(id),
   duration |-> metadata.duration,
   width |-> metadata.width,
   height |-> metadata.height,
   status |-> "uploaded",
   subtitles |-> <<>>,
   exported_path |-> None]

EnhancedName(id) == <<id, "_enhanced.mp4">>
\* settings.EXPORT_DIR / f"{video_id}_exported.{output_format}"
ExportPath(id) == <<"EXPORT_DIR", <<id, "_exported.mp4">>>>

\* Variant of TempAudioPath: one temporary audio file for all videos.
TempAudioPathShared(id) == <<"TEMP_DIR", <<"", "temp_audio.m4a">>>>

\* settings.TEMP_DIR / f"{video_id}_temp_audio.m4a"
TempAudioPath(id) == <<"TEMP_DIR", <<id, "_temp_audio.m4a">>>>

\* Every path an operation on video id writes.
PathsOf(id) ==
  {UploadPath(UploadName(id)), UploadPath(TrimmedName(id)),
   UploadPath(LandscapeName(id)), UploadPath(EnhancedName(id)),
   ExportPath(id), TempAudioPath(id), AudioPath(id)}

\* The subtitle lists the subtitle route stores: segment ids in order.
GeneratedSubtitles == {<<"s1">>, <<"s1", "s2">>}

\* cache_service.set_video
SetVideo(id, record) ==
  [x \in DOMAIN cache \cup {id} |-> IF x = id THEN record ELSE cache[x]]

\* What a call leaves alone apart from cache, files and its own outcome.
pipeline_rest == <<trimming, reframing, framing, transcribing, engine_ran>>

\* A call on video id that returns value r / that raises exception e.
Returns(id, r) ==
  /\ video_id' = id
  /\ video' = None
  /\ result' = r
  /\ raised' = ""
  /\ UNCHANGED <<pc, pipeline_rest>>

Raises(id, e) ==
  /\ video_id' = id
  /\ video' = None
  /\ result' = None
  /\ raised' = e
  /\ UNCHANGED <<pc, pipeline_rest>>

\* The value an operation returns, under the name of the operation.
Value(operation, x) == Some([operation |-> operation, value |-> x])

\* What the engine may leave at its output path when it does not succeed.
Leftover(path) == SUBSET {path}

\* What detect_silence returns to trim_silence here: no silence, a silence
\* at the head of the video, or one that covers it.
Detections == {<<>>, <<<<0, 1>>>>, <<<<0, MaxDur>>>>}

\* Which return of trim_silence the plan leads to.
TrimPath(silent, d, pad) ==
  LET keep == KeepSegments(silent, d, pad) IN
  IF NoSilence(silent) THEN "no_silence"
  ELSE IF NoKeep(keep) THEN "no_keep"
  ELSE IF NoNodes(BuildTrimGraph(keep, d).concat_v) THEN "no_nodes"
  ELSE "engine"

\* Variant of TrimmedRecord: a new record is built for the trimmed file.
TrimmedRecordRebuilt(v, id, new_duration) ==
  [VideoRecord(id, [duration |-> new_duration, width |-> v.width, height |-> v.height])
     EXCEPT !.filename = TrimmedName(id)]

\* video.filename = trimmed_filename; video.metadata.duration = new_duration
TrimmedRecord(v, id, new_duration) ==
  [v EXCEPT !.filename = TrimmedName(id), !.duration = new_duration]

\* video.filename = landscape_filename; width and height as probed
LandscapeRecord(v, id, metadata) ==
  [v EXCEPT !.filename = LandscapeName(id),
            !.width = metadata.width, !.height = metadata.height]

\* video.filename = enhanced_filename
EnhancedRecord(v, id) == [v EXCEPT !.filename = EnhancedName(id)]

InitPipeline ==
  /\ cache = EmptyCache
  /\ files = {}
  /\ pc = "idle"
  /\ video_id = "v1"
  /\ video = None
  /\ engine_ran = FALSE
  /\ result = None
  /\ raised = ""
  /\ NoTrimming
  /\ NoReframing
  /\ NoFraming
  /\ NoTranscribing

\* save_uploaded_video under a fresh id (an id no file was ever named
\* after): write the file, probe it, store the record.
Upload(id, probe) ==
  /\ pc = "idle"
  /\ id \notin DOMAIN cache
  /\ PathsOf(id) \cap files = {}
  /\ files' = files \cup {UploadPath(UploadName(id))}
  /\ cache' = SetVideo(id, VideoRecord(id, GetVideoMetadata(probe)))
  /\ video_id' = id
  /\ Returns(id, None)

UploadVideo ==
  \E id \in VideoIds, probe \in ProbeOutcomes : probe.ok /\ Upload(id, probe)

UploadVideoProbeFailed ==
  \E id \in VideoIds, probe \in ProbeOutcomes : ~probe.ok /\ Upload(id, probe)

\* Any of the four operations on an id the cache does not hold.
OperationNotFound ==
  /\ pc = "idle"
  /\ \E id \in VideoIds \ DOMAIN cache : Raises(id, "ValueError")
  /\ UNCHANGED <<cache, files>>

\* trim_silence that ends without running the engine: detect_silence
\* cannot start its process, or one of the three early returns.
RunTrimSilence ==
  /\ pc = "idle"
  /\ \E id \in DOMAIN cache, silent \in Detections, pad \in Paddings :
       LET d == cache[id].duration
           path == TrimPath(silent, d, pad)
       IN
       \/ Raises(id, "FileNotFoundError")
       \/ /\ path = "no_silence"
          /\ Returns(id, Returned(d, d, 0))
       \/ /\ path \in {"no_keep", "no_nodes"}
          /\ Returns(id, Returned(d, d, Len(silent)))
  /\ UNCHANGED <<cache, files>>

\* trim_silence whose engine run succeeds.
RunTrimSilenceOk ==
  /\ pc = "idle"
  /\ \E id \in DOMAIN cache, silent \in Detections, pad \in Paddings,
        probe \in ProbeOutcomes :
       LET d == cache[id].duration
           new_duration == GetVideoMetadata(probe).duration
       IN
       /\ TrimPath(silent, d, pad) = "engine"
       /\ files' = files \cup {UploadPath(TrimmedName(id))}
       /\ cache' = SetVideo(id, TrimmedRecord(cache[id], id, new_duration))
       /\ Returns(id, Returned(d, new_duration, Len(silent)))

\* trim_silence whose engine run fails: the fallback return on
\* CalledProcessError, or the error of a process that cannot start.
RunTrimSilenceFailed ==
  /\ pc = "idle"
  /\ \E id \in DOMAIN cache, silent \in Detections, pad \in Paddings :
       LET d == cache[id].duration IN
       /\ TrimPath(silent, d, pad) = "engine"
       /\ \/ /\ Returns(id, Returned(d, d, 0))
             /\ \E partial \in Leftover(UploadPath(TrimmedName(id))) :
                  files' = files \cup partial
          \/ /\ Raises(id, "FileNotFoundError")
             /\ files' = files
  /\ UNCHANGED cache

\* transform_to_landscape that ends without running the engine.
RunTransformToLandscape ==
  /\ pc = "idle"
  /\ \E id \in DOMAIN cache :
       LET w == cache[id].width
           h == cache[id].height
       IN
       \/ /\ IsAlreadyLandscape(w, h)
          /\ Returns(id, Value("transform_to_landscape", <<w, h, w, h>>))
       \/ /\ ~IsAlreadyLandscape(w, h)
          /\ w = 0 \/ h = 0
          /\ Raises(id, "ZeroDivisionError")
  /\ UNCHANGED <<cache, files>>

\* transform_to_landscape whose engine run succeeds.
RunTransformOk ==
  /\ pc = "idle"
  /\ \E id \in DOMAIN cache, probe \in ProbeOutcomes :
       LET w == cache[id].width
           h == cache[id].height
           metadata == GetVideoMetadata(probe)
       IN
       /\ ~IsAlreadyLandscape(w, h)
       /\ w # 0 /\ h # 0
       /\ probe.ok => IsAlreadyLandscape(probe.size[1], probe.size[2])
       /\ files' = files \cup {UploadPath(LandscapeName(id))}
       /\ cache' = SetVideo(id, LandscapeRecord(cache[id], id, metadata))
       /\ Returns(id, Value("transform_to_landscape", <<w, h, metadata.width, metadata.height>>))

\* transform_to_landscape whose engine run fails.
RunTransformFailed ==
  /\ pc = "idle"
  /\ \E id \in DOMAIN cache :
       LET w == cache[id].width
           h == cache[id].height
       IN
       /\ ~IsAlreadyLandscape(w, h)
       /\ w # 0 /\ h # 0
       /\ \/ /\ Raises(id, "Exception: Failed to transform video: stderr")
             /\ \E partial \in Leftover(UploadPath(LandscapeName(id))) :
                  files' = files \cup partial
          \/ /\ Raises(id, "FileNotFoundError")
             /\ files' = files
  /\ UNCHANGED cache

\* enhance_audio whose engine run succeeds.
RunEnhanceAudioOk ==
  /\ pc = "idle"
  /\ \E id \in DOMAIN cache :
       /\ files' = files \cup {UploadPath(EnhancedName(id))}
       /\ cache' = SetVideo(id, EnhancedRecord(cache[id], id))
       /\ Returns(id, Value("enhance_audio", TRUE))

\* Variant of RunEnhanceAudioFailed: the record is pointed at the
\* enhanced file before the engine runs.
RunEnhanceAudioFailedStored ==
  /\ pc = "idle"
  /\ \E id \in DOMAIN cache :
       /\ cache' = SetVideo(id, EnhancedRecord(cache[id], id))
       /\ Raises(id, "Exception: Failed to enhance audio")
       /\ \E partial \in Leftover(UploadPath(EnhancedName(id))) :
            files' = files \cup partial

\* enhance_audio whose engine run fails.
RunEnhanceAudioFailed ==
  /\ pc = "idle"
  /\ \E id \in DOMAIN cache :
       \/ /\ Raises(id, "Exception: Failed to enhance audio")
          /\ \E partial \in Leftover(UploadPath(EnhancedName(id))) :
               files' = files \cup partial
       \/ /\ Raises(id, "FileNotFoundError")
          /\ files' = files
  /\ UNCHANGED cache

\* export_with_subtitles up to the rendering: status EXPORTING is stored.
ExportWithSubtitles ==
  /\ pc = "idle"
  /\ \E id \in DOMAIN cache :
       LET exporting == [cache[id] EXCEPT !.status = "exporting"] IN
       /\ video_id' = id
       /\ video' = Some(exporting)
       /\ cache' = SetVideo(id, exporting)
  /\ result' = None
  /\ raised' = ""
  /\ pc' = "exporting"
  /\ UNCHANGED <<files, pipeline_rest>>

\* The rendering completes: status EXPORTED and the output path are
\* stored, the path is returned.
ExportRendered ==
  /\ pc = "exporting"
  /\ LET exported == [video[1] EXCEPT !.status = "exported",
                                     !.exported_path = Some(ExportPath(video_id))]
     IN cache' = SetVideo(video_id, exported)
  /\ files' = files \cup {ExportPath(video_id)}
  /\ result' = Value("export_with_subtitles", ExportPath(video_id))
  /\ video' = None
  /\ pc' = "idle"
  /\ UNCHANGED <<video_id, raised, pipeline_rest>>

\* Variant of ExportFailed: the exception is raised again with nothing
\* stored.
ExportFailedStatusKept ==
  /\ pc = "exporting"
  /\ \E partial \in SUBSET {ExportPath(video_id), TempAudioPath(video_id)} :
       files' = files \cup partial
  /\ raised' = "Exception"
  /\ video' = None
  /\ pc' = "idle"
  /\ UNCHANGED <<cache, video_id, result, pipeline_rest>>

\* The rendering raises: status ERROR is stored and the exception is
\* raised again.  What was written so far may stay on disk.
ExportFailed ==
  /\ pc = "exporting"
  /\ cache' = SetVideo(video_id, [video[1] EXCEPT !.status = "error"])
  /\ \E partial \in SUBSET {ExportPath(video_id), TempAudioPath(video_id)} :
       files' = files \cup partial
  /\ raised' = "Exception"
  /\ video' = None
  /\ pc' = "idle"
  /\ UNCHANGED <<video_id, result, pipeline_rest>>

\* The files delete_video unlinks.
Unlinked(v, id) ==
  {GetVideoPath(v), UploadPath(TrimmedName(id))}
    \cup (IF v.exported_path # None THEN {v.exported_path[1]} ELSE {})

\* cache_service.delete_video
DeleteKey(id) == [x \in DOMAIN cache \ {id} |-> cache[x]]

\* delete_video on a stored video.
DeleteVideo ==
  /\ pc = "idle"
  /\ \E id \in DOMAIN cache :
       /\ files' = files \ Unlinked(cache[id], id)
       /\ cache' = DeleteKey(id)
       /\ Returns(id, Value("delete_video", TRUE))

\* delete_video on an id the cache does not hold.
DeleteVideoNotFound ==
  /\ pc = "idle"
  /\ \E id \in VideoIds \ DOMAIN cache : Returns(id, Value("delete_video", FALSE))
  /\ UNCHANGED <<cache, files>>

\* The subtitle route: generate a subtitle list for the video's file and
\* store it in the record; the extracted audio may stay on disk.
StoreGeneratedSubtitles ==
  /\ pc = "idle"
  /\ \E id \in DOMAIN cache, subs \in GeneratedSubtitles :
       /\ GetVideoPath(cache[id]) \in files
       /\ cache' = SetVideo(id, [cache[id] EXCEPT !.subtitles = subs])
       /\ \E partial \in Leftover(AudioPath(id)) : files' = files \cup partial
       /\ Returns(id, Value("generate_subtitles", subs))

NextPipeline ==
  \/ UploadVideo
  \/ UploadVideoProbeFailed
  \/ OperationNotFound
  \/ RunTrimSilence
  \/ RunTrimSilenceOk
  \/ RunTrimSilenceFailed
  \/ RunTransformToLandscape
  \/ RunTransformOk
  \/ RunTransformFailed
  \/ RunEnhanceAudioOk
  \/ RunEnhanceAudioFailed
  \/ ExportWithSubtitles
  \/ ExportRendered
  \/ ExportFailed
  \/ DeleteVideo
  \/ DeleteVideoNotFound
  \/ StoreGeneratedSubtitles

SpecPipeline == InitPipeline /\ [][NextPipeline]_vars

\* --------------------------------------------------------- SpecInterleave
\* Two invocations in flight at once, one for each of two uploaded videos.
\* An invocation reads its record (get_video), runs, and ends by writing
\* its files and storing its copy of the record (update_video); the steps
\* of the two interleave freely.  Here pc, video, result and raised hold
\* one value per video id, and video_id is the id of the last step.
ConcurrentIds == {"v1", "v2"}
Operations == {"trim_silence", "transform_to_landscape", "enhance_audio",
               "export_with_subtitles"}

InitInterleave ==
  /\ cache = [id \in ConcurrentIds |->
               VideoRecord(id, [duration |-> MaxDur, width |-> 1, height |-> 2])]
  /\ files = {UploadPath(UploadName(id)) : id \in ConcurrentIds}
  /\ pc = [id \in ConcurrentIds |-> "idle"]
  /\ video = [id \in ConcurrentIds |-> None]
  /\ result = [id \in ConcurrentIds |-> None]
  /\ raised = [id \in ConcurrentIds |-> ""]
  /\ video_id = "v1"
  /\ engine_ran = FALSE
  /\ NoTrimming
  /\ NoReframing
  /\ NoFraming
  /\ NoTranscribing

\* An operation is invoked for id: it reads the record; export stores
\* status EXPORTING at once.
Invoke ==
  \E id \in ConcurrentIds, op \in Operations :
    LET v == IF op = "export_with_subtitles"
             THEN [cache[id] EXCEPT !.status = "exporting"]
             ELSE cache[id]
    IN
    /\ pc[id] = "idle"
    /\ video_id' = id
    /\ video' = [video EXCEPT ![id] = Some(v)]
    /\ cache' = SetVideo(id, v)
    /\ pc' = [pc EXCEPT ![id] = op]
    /\ UNCHANGED <<files, result, raised, pipeline_rest>>

\* The output file of an operation and the record it stores on success.
OutputPath(op, id) ==
  CASE op = "trim_silence" -> UploadPath(TrimmedName(id))
    [] op = "transform_to_landscape" -> UploadPath(LandscapeName(id))
    [] op = "enhance_audio" -> UploadPath(EnhancedName(id))
    [] op = "export_with_subtitles" -> ExportPath(id)

StoredOnSuccess(op, id, v) ==
  CASE op = "trim_silence" -> TrimmedRecord(v, id, 1)
    [] op = "transform_to_landscape" ->
         LandscapeRecord(v, id, [duration |-> v.duration, width |-> 2, height |-> 1])
    [] op = "enhance_audio" -> EnhancedRecord(v, id)
    [] op = "export_with_subtitles" ->
         [v EXCEPT !.status = "exported", !.exported_path = Some(ExportPath(id))]

\* The invocation for id ends with success: the output file is written,
\* the invocation's copy of the record is updated and stored.
Complete ==
  \E id \in ConcurrentIds :
    /\ pc[id] \in Operations
    /\ video_id' = id
    /\ files' = files \cup {OutputPath(pc[id], id)}
    /\ cache' = SetVideo(id, StoredOnSuccess(pc[id], id, video[id][1]))
    /\ result' = [result EXCEPT ![id] = Value(pc[id], OutputPath(pc[id], id))]
    /\ video' = [video EXCEPT ![id] = None]
    /\ pc' = [pc EXCEPT ![id] = "done"]
    /\ UNCHANGED <<raised, pipeline_rest>>

\* The invocation for id ends with a failure: a part of the output (and
\* of the export's temporary audio) may stay on disk; export stores
\* status ERROR, the others store nothing.
Fail ==
  \E id \in ConcurrentIds :
    /\ pc[id] \in Operations
    /\ video_id' = id
    /\ \E partial \in SUBSET ({OutputPath(pc[id], id)} \cup
                               IF pc[id] = "export_with_subtitles"
                               THEN {TempAudioPath(id)} ELSE {}) :
         files' = files \cup partial
    /\ cache' = IF pc[id] = "export_with_subtitles"
                THEN SetVideo(id, [video[id][1] EXCEPT !.status = "error"])
                ELSE cache
    /\ raised' = [raised EXCEPT ![id] = "Exception"]
    /\ video' = [video EXCEPT ![id] = None]
    /\ pc' = [pc EXCEPT ![id] = "done"]
    /\ UNCHANGED <<result, pipeline_rest>>

NextInterleave ==
  \/ Invoke
  \/ Complete
  \/ Fail

SpecInterleave == InitInterleave /\ [][NextInterleave]_vars

\* -------------------------------------------------------------- SpecMerge
\* The merge route on a video whose record holds a subtitle list; calls
\* follow each other until no call changes the list any more.

\* Subtitle lists of up to three segments with ids of their own; the text
\* of a segment is a sequence of words.
SubtitleLists ==
  LET seg == [id : {"s1", "s2", "s3"}, start_time : {0, 1}, end_time : {1, 2},
              text : {<<"w">>}, style : {"default", "bold"}]
  IN {q \in SeqsUpTo(seg, 3) :
        \A i \in 1..Len(q) : \A j \in 1..Len(q) : q[i].id = q[j].id => i = j}

\* sub_map[id]: the position of the segment with this id (the last one
\* that has it), 0 when there is none.
IndexOf(subs, id) ==
  Max(0, CHOOSE i \in 0..Len(subs) :
            /\ i > 0 => subs[i].id = id
            /\ \A j \in (i + 1)..Len(subs) : subs[j].id # id)

\* merged_sub = SubtitleSegment(id=sub1.id, start_time=min(...), ...)
MergedSegment(sub1, sub2, separator) ==
  [id |-> sub1.id,
   start_time |-> Min(sub1.start_time, sub2.start_time),
   end_time |-> Max(sub1.end_time, sub2.end_time),
   text |-> sub1.text \o <<separator>> \o sub2.text,
   style |-> sub1.style]

\* subtitles.pop(idx2); subtitles.pop(idx1); subtitles.insert(idx1, merged)
\* on positions idx1 <= idx2: the new list, or None when the second pop is
\* out of range (IndexError).
PopPopInsert(subs, idx1, idx2, merged) ==
  LET once == SubSeq(subs, 1, idx2 - 1) \o SubSeq(subs, idx2 + 1, Len(subs)) IN
  IF idx1 > Len(once) THEN None
  ELSE Some(SubSeq(once, 1, idx1 - 1) \o <<merged>>
              \o SubSeq(once, idx1 + 1, Len(once)))

InitMerge ==
  /\ cache \in {EmptyCache} \cup
       {[id \in {"v1"} |->
           [VideoRecord(id, [duration |-> MaxDur, width |-> 1, height |-> 2])
              EXCEPT !.subtitles = subs]] : subs \in SubtitleLists}
  /\ files = {UploadPath(UploadName(id)) : id \in DOMAIN cache}
  /\ pc = "idle"
  /\ video_id = "v1"
  /\ video = None
  /\ engine_ran = FALSE
  /\ result = None
  /\ raised = ""
  /\ NoTrimming
  /\ NoReframing
  /\ NoFraming
  /\ NoTranscribing

\* merge_subtitles(video_id, request)
MergeSubtitles ==
  /\ pc = "idle"
  /\ \E id \in VideoIds, id1 \in {"s1", "s2", "s3"}, id2 \in {"s1", "s2", "s3"} :
       LET subs == cache[id].subtitles
           idx1 == Min(IndexOf(subs, id1), IndexOf(subs, id2))
           idx2 == Max(IndexOf(subs, id1), IndexOf(subs, id2))
           merged == MergedSegment(subs[idx1], subs[idx2], " ")
           merged_subs == PopPopInsert(subs, idx1, idx2, merged)
       IN
       /\ video_id' = id
       /\ request' = Some([segment_id_1 |-> id1, segment_id_2 |-> id2])
       /\ IF id \notin DOMAIN cache
          THEN /\ raised' = "HTTPException 404: Video not found"
               /\ UNCHANGED <<cache, result>>
          ELSE IF IndexOf(subs, id1) = 0 \/ IndexOf(subs, id2) = 0
          THEN /\ raised' = "HTTPException 404: One or both subtitle segments not found"
               /\ UNCHANGED <<cache, result>>
          ELSE IF merged_subs = None
          THEN /\ raised' = "IndexError"
               /\ UNCHANGED <<cache, result>>
          ELSE /\ raised' = ""
               /\ cache' = SetVideo(id, [cache[id] EXCEPT !.subtitles = merged_subs[1]])
               /\ result' = Value("merge_subtitles", merged)
  /\ UNCHANGED <<pc, video, files, engine_ran, trimming, reframing, framing,
                 video_duration, groq_api_key, subtitles>>

NextMerge == MergeSubtitles

SpecMerge == InitMerge /\ [][NextMerge]_vars

\* The input and output paths of the engine command trim_silence builds:
\* "-i", str(video_path) and str(trimmed_path).
TrimCommand ==
  [input |-> GetVideoPath(video[1]), output |-> UploadPath(TrimmedName(video_id))]

\* ================================================================= claims
\* A silence list as the detector's contract describes it: intervals with
\* 0 <= start < end, ordered by start, no two overlapping.
ValidSilence(segs) ==
  /\ \A i \in 1..Len(segs) : 0 <= segs[i][1] /\ segs[i][1] < segs[i][2]
  /\ \A i \in 1..(Len(segs) - 1) : segs[i][2] <= segs[i + 1][1]

\* Each segment starts no earlier than the previous one ends.
Monotone(segs) == \A i \in 1..(Len(segs) - 1) : segs[i + 1][1] >= segs[i][2]

\* trim_silence has run its planning step in the current call.
Planned == pc \in {"idle", "engine"} /\ silent_segments # <<>> /\ raised = ""

\* The graph of the current call is complete (the concat node is appended).
GraphBuilt == pc = "engine" \/ engine_ran

\* C1: for an ordered, non-overlapping silence list, any duration and any
\* padding >= 0, each keep segment starts at or after the end of the
\* previous keep segment.
C1_KeepOrdered ==
  (Planned /\ ValidSilence(silent_segments) /\ padding >= 0)
    => Monotone(keep_segments)

\* C2: one silence (s, e) with 0 <= s < e <= D, s + p > 0 and e - p < D
\* plans to exactly [(0, s + p), (e - p, D)]; with ticks of 0.1 s the
\* silence (5, 10), duration 15, padding 0.1 plans to [(0, 5.1), (9.9, 15)].
C2_SingleSilence ==
  /\ (Planned /\ Len(silent_segments) = 1)
       => LET s == silent_segments[1][1]
              e == silent_segments[1][2]
              D == original_duration
              p == padding
          IN (0 <= s /\ s < e /\ e <= D /\ s + p > 0 /\ e - p < D)
               => keep_segments = << <<0, s + p>>, <<e - p, D>> >>
  /\ KeepSegments(<< <<50, 100>> >>, 150, 1) = << <<0, 51>>, <<99, 150>> >>

C2_Witness ==
  /\ Planned /\ Len(silent_segments) = 1 /\ padding > 0
  /\ 0 <= silent_segments[1][1] /\ silent_segments[1][1] < silent_segments[1][2]
  /\ silent_segments[1][2] <= original_duration
  /\ silent_segments[1][2] - padding < original_duration
  /\ keep_segments = << <<0, silent_segments[1][1] + padding>>,
                        <<silent_segments[1][2] - padding, original_duration>> >>

IsTrim(node) == node.op \in {"trim", "atrim"}

\* C4: every trim/atrim node of the filter graph has bounds with
\* 0 <= start < end <= original_duration.
C4_NodeBounds ==
  \A k \in 1..Len(filter_parts) :
    IsTrim(filter_parts[k])
      => /\ 0 <= filter_parts[k].start
         /\ filter_parts[k].start < filter_parts[k].end
         /\ filter_parts[k].end <= original_duration

\* A keep segment was moved by the clamp and emitted, another was dropped.
C4_Witness ==
  /\ \E k \in 1..Len(filter_parts) : IsTrim(filter_parts[k])
  /\ \E i \in 1..Len(keep_segments) :
       /\ keep_segments[i][1] < 0 \/ keep_segments[i][2] > original_duration
       /\ Max(0, keep_segments[i][1]) < Min(original_duration, keep_segments[i][2])
  /\ \E i \in 1..Len(keep_segments) :
       Max(0, keep_segments[i][1]) >= Min(original_duration, keep_segments[i][2])

\* C5: a call that found no silence, or whose planning/clamping left no
\* keep segment, returns new_duration = original_duration, has not started
\* the engine, and the stored record is the one read when the call began.
C5_NoOp ==
  (pc = "idle" /\ result # None /\ (silent_segments = <<>> \/ concat_v = <<>>))
    => /\ result[1].new_duration = result[1].original_duration
       /\ result[1].original_duration = video[1].duration
       /\ ~engine_ran
       /\ cache[video_id] = video[1]

\* Silence was found and planned, and clamping left no segment.
C5_Witness ==
  /\ pc = "idle" /\ result # None /\ silent_segments # <<>>
  /\ keep_segments # <<>> /\ concat_v = <<>>
  /\ result[1].new_duration = video[1].duration

\* Indices of the keep segments that survive clamping.
Surviving(keep, D) ==
  {i \in 1..Len(keep) : Max(0, keep[i][1]) < Min(D, keep[i][2])}

NodesOf(parts, op) == {k \in 1..Len(parts) : parts[k].op = op}
Range(q) == {q[k] : k \in 1..Len(q)}

\* C6: with N keep segments surviving the clamp, the graph has N trim and N
\* atrim nodes with pairwise distinct output labels and one concat node
\* with n = N whose inputs are exactly those labels.
C6_GraphShape ==
  GraphBuilt =>
    LET N == Cardinality(Surviving(keep_segments, original_duration))
        V == NodesOf(filter_parts, "trim")
        A == NodesOf(filter_parts, "atrim")
        C == NodesOf(filter_parts, "concat")
        outs == {filter_parts[k].out : k \in V \cup A}
    IN /\ Cardinality(V) = N /\ Cardinality(A) = N /\ Cardinality(C) = 1
       /\ Cardinality(outs) = 2 * N
       /\ \A k \in C : /\ filter_parts[k].n = N
                       /\ Len(filter_parts[k].inputs) = 2 * N
                       /\ Range(filter_parts[k].inputs) = outs

\* Two segments survive and one was dropped, so the labels skip an index.
C6_Witness ==
  /\ pc = "engine"
  /\ Cardinality(Surviving(keep_segments, original_duration)) >= 2
  /\ Len(keep_segments) > Cardinality(Surviving(keep_segments, original_duration))

\* The clamped bounds of the surviving keep segments, in list order.
SurvClamped(keep, D) ==
  LET cl == [i \in 1..Len(keep) |-> <<Max(0, keep[i][1]), Min(D, keep[i][2])>>]
  IN SelectSeq(cl, LAMBDA c : c[1] < c[2])

\* The complete graph trim_silence builds for a keep list.
FullGraph(keep, D) ==
  LET g == BuildTrimGraph(keep, D)
  IN Append(g.filter_parts, ConcatNode(g.concat_v, g.concat_a))

\* The node of the graph that defines a label.
Defining(parts, label) ==
  CHOOSE k \in 1..Len(parts) : IsTrim(parts[k]) /\ parts[k].out = label

\* The concat inputs of a complete graph, each as the kind and bounds of the
\* node it refers to.
ConcatOrder(parts) ==
  LET c == parts[Len(parts)]
  IN [k \in 1..Len(c.inputs) |->
        LET nd == parts[Defining(parts, c.inputs[k])]
        IN <<nd.op, nd.start, nd.end>>]

\* What C7 asks of a keep list: first the video trims, then the audio
\* trims, each group holding the surviving segments in the order of the list.
ExpectedOrder(keep, D) ==
  LET sc == SurvClamped(keep, D)
      N == Len(sc)
  IN [k \in 1..(2 * N) |->
        IF k <= N THEN <<"trim", sc[k][1], sc[k][2]>>
        ELSE <<"atrim", sc[k - N][1], sc[k - N][2]>>]

Perms(n) == {f \in [1..n -> 1..n] : \A a, b \in 1..n : f[a] = f[b] => a = b}
Permute(q, f) == [k \in 1..Len(q) |-> q[f[k]]]

\* C7: the concat node lists all video labels, then all audio labels, each
\* group in keep-list order, and a permuted keep list gives the identically
\* permuted concat order (nothing is re-sorted).
C7_ConcatOrder ==
  GraphBuilt =>
    /\ ConcatOrder(filter_parts) = ExpectedOrder(keep_segments, original_duration)
    /\ \A f \in Perms(Len(keep_segments)) :
         LET permuted == Permute(keep_segments, f) IN
         ConcatOrder(FullGraph(permuted, original_duration))
           = ExpectedOrder(permuted, original_duration)

\* Two surviving segments stand in the list against their time order.
C7_Witness ==
  /\ pc = "engine"
  /\ LET sc == SurvClamped(keep_segments, original_duration)
     IN Len(sc) >= 2 /\ sc[1][1] > sc[2][1]

\* A marker line whose number float() accepted.
IsParsed(line, marker) == line.marker = marker /\ line.tok.kind = "number"

RECURSIVE Ascending(_)
Ascending(S) ==
  IF S = {} THEN <<>>
  ELSE LET m == CHOOSE x \in S : \A y \in S : x <= y
       IN <<m>> \o Ascending(S \ {m})

\* Every interval of segs is a parsed silence_start line and a later parsed
\* silence_end line of the stream, carrying their numbers; the intervals use
\* distinct lines, one pair after the other in stream order.
Matched(stream, segs) ==
  \E S \in SUBSET (1..Len(stream)) :
    /\ Cardinality(S) = 2 * Len(segs)
    /\ LET idx == Ascending(S) IN
       \A k \in 1..Len(segs) :
         /\ IsParsed(stream[idx[2 * k - 1]], StartMarker)
         /\ IsParsed(stream[idx[2 * k]], EndMarker)
         /\ segs[k] = <<stream[idx[2 * k - 1]].tok.val, stream[idx[2 * k]].tok.val>>

\* C8: on any diagnostic stream the parser raises nothing, and it emits an
\* interval only for a parsed silence_start followed later by a parsed
\* silence_end (so a silence_end with no pending start, a silence_start with
\* no later end and a marker with an unparsable number give no interval).
C8_ParserTotal ==
  /\ raised = ""
  /\ Matched(lines, silent_segments)

\* A returned call whose stream held an end with no start before it, a
\* marker with an unparsable number and a start that no end followed.
C8_Witness ==
  /\ pc = "detected" /\ Len(lines) = MaxLines
  /\ \E j \in 1..Len(lines) :
       /\ IsParsed(lines[j], EndMarker)
       /\ \A i \in 1..(j - 1) : ~IsParsed(lines[i], StartMarker)
  /\ \E j \in 1..Len(lines) : lines[j].marker # "" /\ lines[j].tok.kind # "number"
  /\ start_time # None
  /\ silent_segments = <<>>

\* The marker lines of a stream, in order.
Markers(stream) == SelectSeq(stream, LAMBDA l : l.marker # "")

\* Strictly alternating silence_start / silence_end markers, every number
\* parsable, timestamps non-decreasing.
WellFormed(stream) ==
  LET ms == Markers(stream) IN
  /\ \A k \in 1..Len(ms) :
       /\ ms[k].tok.kind = "number"
       /\ ms[k].marker = IF k % 2 = 1 THEN StartMarker ELSE EndMarker
  /\ \A k \in 1..(Len(ms) - 1) : ms[k].tok.val <= ms[k + 1].tok.val

\* C9: on a well-formed stream detect_silence returns one interval per
\* start/end pair, in stream order; the list is ordered by start and no two
\* intervals overlap.
C9_WellFormedStream ==
  (pc = "detected" /\ WellFormed(lines)) =>
    LET ms == Markers(lines) IN
    /\ silent_segments =
         [k \in 1..(Len(ms) \div 2) |-> <<ms[2 * k - 1].tok.val, ms[2 * k].tok.val>>]
    /\ \A k \in 1..(Len(silent_segments) - 1) :
         /\ silent_segments[k][1] <= silent_segments[k + 1][1]
         /\ silent_segments[k][2] <= silent_segments[k + 1][1]

C9_Witness ==
  /\ pc = "detected" /\ WellFormed(lines)
  /\ Len(silent_segments) = 2
  /\ silent_segments[1][1] < silent_segments[1][2]
  /\ silent_segments[2][1] < silent_segments[2][2]

\* C10: every interval detect_silence returns has start >= 0 and
\* end > start, whatever the stream.
C10_IntervalInvariant ==
  \A k \in 1..Len(silent_segments) :
    /\ silent_segments[k][1] >= 0
    /\ silent_segments[k][2] > silent_segments[k][1]

\* C11: when the analysis process of detect_silence cannot be started, the
\* call raises nothing: detect_silence returns the empty list, so
\* trim_silence returns the no-op result (D, D, 0) and stores nothing.
C11_DetectUnavailable ==
  [][TrimDetectNotLaunched =>
       /\ raised' = ""
       /\ silent_segments' = <<>>
       /\ result' = Returned(video'[1].duration, video'[1].duration, 0)
       /\ cache' = cache]_vars

\* The largest integer n with n <= x * num / den.
IsFloorOf(n, x, num, den) == n * den <= x * num /\ x * num < (n + 1) * den

\* e is x rounded down to an even integer.
IsEvenBelow(e, x) == e % 2 = 0 /\ e <= x /\ x <= e + 1

\* num / den is the smaller of tw / ow and th / oh.
IsMinScale(num, den, ow, oh, tw, th) ==
  /\ num * ow = tw * den \/ num * oh = th * den
  /\ num * ow <= tw * den
  /\ num * oh <= th * den

C13_LandscapeNoOp ==
  [][(pc = "idle" /\ video' # None /\ video'[1].width >= video'[1].height) =>
       /\ result' = Some(<<video'[1].width, video'[1].height,
                           video'[1].width, video'[1].height>>)
       /\ raised' = ""
       /\ engine_ran' = FALSE
       /\ pc' = "idle"
       /\ cache' = cache
       /\ files' = files]_vars

\* A second call in a row on a landscape video has returned its size.
C13_Witness ==
  /\ pc = "idle"
  /\ raised = ""
  /\ ~engine_ran
  /\ video # None
  /\ video[1].width >= video[1].height
  /\ video[1].width > 0
  /\ video[1] = cache[video_id]
  /\ result = Some(<<video[1].width, video[1].height,
                     video[1].width, video[1].height>>)

\* C14: for a video of height H and a bitmap of height h with 0 < h <= H,
\* the overlay position y has 0 <= y and y + h <= H; it is
\* H - h - max(60, 8% of H) brought into [0, H - h].
C14_OverlayInFrame ==
  (pc = "placed" /\ 0 < img_height /\ img_height <= video_height) =>
    LET H == video_height
        h == img_height
        margin == IF (8 * H) \div 100 >= 60 THEN (8 * H) \div 100 ELSE 60
        unclamped == H - h - margin
    IN
    /\ 0 <= y_position
    /\ y_position + h <= H
    /\ unclamped >= 0 => y_position = unclamped
    /\ unclamped < 0 => y_position = 0

\* A bitmap so tall that the unclamped position would be negative.
C14_Witness ==
  /\ pc = "placed"
  /\ 0 < img_height
  /\ img_height <= video_height
  /\ video_height - img_height - BottomMargin(video_height) < 0
  /\ y_position = 0

\* round(x * p / 1000) for x >= 0
RoundPermille(x, p) == (x * p + 500) \div 1000

\* C17: the canvas counts as landscape exactly when width >= height (a
\* square canvas is landscape); landscape uses font size
\* max(36, round(0.022 * width)) and budget 0.85 * width, anything else
\* max(28, round(0.028 * height)) and budget 0.90 * width.
C17_LandscapeSizing ==
  pc \in {"framed", "placed"} =>
    LET W == video_width
        H == video_height
    IN
    /\ is_landscape = (W >= H)
    /\ W >= H => /\ base_font_size = Max(36, RoundPermille(W, 22))
                 /\ max_text_width * 100 = 85 * W
    /\ W < H => /\ base_font_size = Max(28, RoundPermille(H, 28))
                /\ max_text_width * 100 = 90 * W

\* The words of a sequence of lines, in order.
RECURSIVE WordsOf(_)
WordsOf(ls) == IF ls = <<>> THEN <<>> ELSE Split(Head(ls)) \o WordsOf(Tail(ls))

NineWords == [k \in 1..9 |-> 2]

\* C15: every line of more than one word is no wider than the budget, and
\* every break is forced: the line before it with the next line's first
\* word added would be wider than the budget.  With a budget that fits
\* exactly three words, nine words that each fit give three lines of three.
C15_GreedyWrap ==
  /\ pc = "wrapped" =>
       LET ls == wrapped[1] IN
       /\ \A k \in 1..Len(ls) :
            Len(Split(ls[k])) > 1 => TextWidth(ls[k]) <= max_text_width
       /\ \A k \in 1..(Len(ls) - 1) :
            TextWidth(ls[k] \o <<Space, Split(ls[k + 1])[1]>>) > max_text_width
  /\ TextWidth(Join(<<2, 2, 2>>)) = 8
  /\ WrapText(Join(NineWords), 8) =
       <<Join(<<2, 2, 2>>), Join(<<2, 2, 2>>), Join(<<2, 2, 2>>)>>

\* A text wrapped into several lines, one of them of several words.
C15_Witness ==
  /\ pc = "wrapped"
  /\ Len(wrapped[1]) >= 2
  /\ \E k \in 1..Len(wrapped[1]) : Len(Split(wrapped[1][k])) >= 2

\* C16: the lines, joined in order and split on whitespace, are the words
\* of the text in their order; a word wider than the budget is alone on
\* its line; there is at least one line, the raw text when it has no word.
C16_WordsKept ==
  pc = "wrapped" =>
    LET ls == wrapped[1] IN
    /\ WordsOf(ls) = Split(text)
    /\ \A k \in 1..Len(ls) :
         (\E j \in 1..Len(Split(ls[k])) : Split(ls[k])[j] > max_text_width)
           => Len(Split(ls[k])) = 1
    /\ Len(ls) >= 1
    /\ Split(text) = <<>> => ls = <<text>>

\* A text of several words, one of them wider than the budget.
C16_Witness ==
  /\ pc = "wrapped"
  /\ Len(Split(text)) >= 3
  /\ \E j \in 1..Len(Split(text)) : Split(text)[j] > max_text_width
  /\ \E j \in 1..Len(Split(text)) : Split(text)[j] <= max_text_width
  /\ Len(wrapped[1]) >= 2

\* C18: whatever operations ran before, an engine command writes a path
\* other than the one it reads: here the command of trim_silence.
C18_FreshOutputPath ==
  pc = "engine" => TrimCommand.output # TrimCommand.input

\* C19: when the engine of trim_silence exits non-zero, or cannot be
\* started, the call ends with a failure raised to its caller and returns
\* no result.
C19_EngineFailureRaised ==
  [][(TrimEngineFailed \/ TrimEngineNotLaunched) =>
       (raised' # "" /\ result' = None)]_vars

\* C20: when an operation has returned or raised, no temporary or partial
\* file it created is left: here, after generate_subtitles, the extracted
\* audio file is gone whichever path was taken.
C20_NoTempFileLeft ==
  (pc = "idle" /\ subtitles # None) => AudioPath(video_id) \notin files

\* C21: when the probe fails, get_video_metadata raises nothing and gives
\* the defaults duration 30 s, width 0, height 0: an upload whose probe
\* fails stores a record with these values.
C21_ProbeDefaults ==
  [][UploadVideoProbeFailed =>
       /\ raised' = ""
       /\ cache'[video_id'].duration = DefaultDuration
       /\ cache'[video_id'].width = 0
       /\ cache'[video_id'].height = 0]_vars

\* The steps with which trim_silence, transform_to_landscape,
\* enhance_audio and export_with_subtitles return or raise.
PipelineOperationEnds ==
  \/ RunTrimSilence
  \/ RunTrimSilenceOk
  \/ RunTrimSilenceFailed
  \/ RunTransformToLandscape
  \/ RunTransformOk
  \/ RunTransformFailed
  \/ RunEnhanceAudioOk
  \/ RunEnhanceAudioFailed
  \/ ExportRendered
  \/ ExportFailed

\* The stored subtitles of the video the step is about are after the step
\* what they were before it.
SubtitlesKept ==
  /\ video_id' \in DOMAIN cache
  /\ video_id' \in DOMAIN cache'
  /\ cache'[video_id'].subtitles = cache[video_id'].subtitles

\* C22: trim_silence, transform_to_landscape, enhance_audio and
\* export_with_subtitles only read the subtitle list: when one of them
\* returns or raises, the stored record holds the subtitles it held
\* before the call.  Said of the steps: a step after which the stored
\* subtitles differ is no step of the four operations.
C22_SubtitlesOnlyRead ==
  [][~SubtitlesKept => ~(PipelineOperationEnds \/ ExportWithSubtitles)]_vars

\* A trim whose engine ran has returned on a video that has subtitles.
C22_Witness ==
  /\ pc = "idle"
  /\ video_id \in DOMAIN cache
  /\ cache[video_id].subtitles # <<>>
  /\ cache[video_id].filename = TrimmedName(video_id)
  /\ result = Returned(MaxDur, 1, 1)

C27_FailureKeepsRecord ==
  [][cache' # cache =>
       ~(RunTrimSilenceFailed \/ RunTransformFailed \/ RunEnhanceAudioFailed)]_vars

\* enhance_audio has failed and left a part of its output on disk, while
\* the record points at another file.
C27_Witness ==
  /\ pc = "idle"
  /\ raised = "Exception: Failed to enhance audio"
  /\ video_id \in DOMAIN cache
  /\ UploadPath(EnhancedName(video_id)) \in files
  /\ cache[video_id].filename # EnhancedName(video_id)

\* The files the operations create for a video: the upload and its
\* trimmed, landscape, enhanced and exported variants.
VariantPaths(id) ==
  {UploadPath(UploadName(id)), UploadPath(TrimmedName(id)),
   UploadPath(LandscapeName(id)), UploadPath(EnhancedName(id)), ExportPath(id)}

\* C29: after delete_video(id) has returned True none of the files
\* created for the video (upload, trimmed, landscape, enhanced, exported)
\* is on disk and its record is gone from the cache; on an unknown id
\* delete_video returns False and changes neither cache nor disk.
C29_DeleteRemovesAll ==
  [][/\ DeleteVideo =>
          /\ result' = Value("delete_video", TRUE)
          /\ video_id' \notin DOMAIN cache'
          /\ VariantPaths(video_id') \cap files' = {}
     /\ DeleteVideoNotFound =>
          /\ result' = Value("delete_video", FALSE)
          /\ cache' = cache
          /\ files' = files]_vars

\* C28: trim_silence reports segments_removed = 0 whenever it performed no
\* trimming, and the number of detected intervals only when the engine
\* succeeded: a return with segments_removed other than 0 is the return
\* after a successful engine run.
C28_SegmentsRemoved ==
  [][(result' # None /\ result' # result /\ result'[1].segments_removed # 0)
       => TrimEngineOk]_vars

\* The total length of the video trim nodes of a filter graph.
RECURSIVE TrimTotal(_)
TrimTotal(parts) ==
  IF parts = <<>> THEN 0
  ELSE (IF Head(parts).op = "trim" THEN Head(parts).end - Head(parts).start ELSE 0)
         + TrimTotal(Tail(parts))

\* C25: for an ordered, non-overlapping silence list, any duration D and
\* any padding >= 0, the trim segments trim_silence sends to the engine
\* have a total length of at most D.
C25_NoLongerThanOriginal ==
  (pc = "engine" /\ ValidSilence(silent_segments) /\ padding >= 0)
    => TrimTotal(filter_parts) <= original_duration

\* The silence list lies inside [0, D] and the padding is smaller than
\* half of every silence interval.
PaddedInside(segs, D, p) ==
  /\ ValidSilence(segs)
  /\ \A i \in 1..Len(segs) : segs[i][2] <= D /\ 2 * p < segs[i][2] - segs[i][1]
  /\ p >= 0

\* The stretch of video from t to t + 1 lies in a keep segment / in the
\* padded core (s + p, e - p) of a silence interval.
KeptAt(keep, t) == \E i \in 1..Len(keep) : keep[i][1] <= t /\ t + 1 <= keep[i][2]
InCore(segs, p, t) ==
  \E i \in 1..Len(segs) : segs[i][1] + p <= t /\ t + 1 <= segs[i][2] - p

\* C24: for ordered, non-overlapping silence intervals inside [0, D] and a
\* padding p >= 0 with 2p smaller than every silence interval, the keep
\* segments lie in [0, D] and cover exactly what is outside the padded
\* cores (s + p, e - p): every stretch of the video is either kept or
\* inside a core, never both.
C24_KeepIsComplement ==
  (pc = "planned" /\ PaddedInside(silent_segments, original_duration, padding))
    => /\ \A i \in 1..Len(keep_segments) :
            /\ 0 <= keep_segments[i][1]
            /\ keep_segments[i][1] < keep_segments[i][2]
            /\ keep_segments[i][2] <= original_duration
       /\ \A t \in 0..(original_duration - 1) :
            KeptAt(keep_segments, t) <=> ~InCore(silent_segments, padding, t)

\* The plan of a padded silence that leaves a core and a kept stretch on
\* each side of it.
C24_Witness ==
  /\ pc = "planned"
  /\ PaddedInside(silent_segments, original_duration, padding)
  /\ padding > 0
  /\ Len(silent_segments) = 1
  /\ Len(keep_segments) = 2
  /\ \E t \in 0..(original_duration - 1) : InCore(silent_segments, padding, t)

\* C23: under any interleaving of two invocations for two different video
\* ids, no path and no record key is written by both: the paths of the
\* two ids are disjoint, a step of one invocation leaves the other id's
\* record, files and copy alone, and the copy an invocation holds is the
\* stored record, so each ends as it would have ended alone.
C23_Independent ==
  [][/\ \A a \in ConcurrentIds : \A b \in ConcurrentIds \ {a} :
          PathsOf(a) \cap PathsOf(b) = {}
     /\ \A b \in ConcurrentIds \ {video_id'} :
          /\ cache'[b] = cache[b]
          /\ files' \cap PathsOf(b) = files \cap PathsOf(b)
          /\ video'[b] = video[b]
     /\ \A a \in ConcurrentIds :
          video'[a] # None => video'[a][1] = cache'[a]]_vars

\* Both invocations have ended, after any interleaving of their steps:
\* v1 is trimmed and v2 is exported.
C23_Witness ==
  /\ DOMAIN pc = ConcurrentIds
  /\ pc["v1"] = "done" /\ pc["v2"] = "done"
  /\ cache["v1"].filename = TrimmedName("v1")
  /\ cache["v2"].status = "exported"
  /\ ExportPath("v2") \in files

\* C30: for any two segment ids present in the video's subtitle list,
\* merge_subtitles shortens the list by one: at the earlier of the two
\* positions stands the merged segment (id and style of the earlier
\* segment, start the smaller start, end the larger end), the segment at
\* the later position is gone, and every other segment is unchanged and
\* in its order.
C30_MergeTwo ==
  [][(/\ request' # None
      /\ video_id' \in DOMAIN cache
      /\ IndexOf(cache[video_id'].subtitles, request'[1].segment_id_1) > 0
      /\ IndexOf(cache[video_id'].subtitles, request'[1].segment_id_2) > 0)
     => LET before == cache[video_id'].subtitles
            after == cache'[video_id'].subtitles
            p1 == IndexOf(before, request'[1].segment_id_1)
            p2 == IndexOf(before, request'[1].segment_id_2)
            i == Min(p1, p2)
            j == Max(p1, p2)
        IN /\ raised' = ""
           /\ Len(after) = Len(before) - 1
           /\ after[i].id = before[i].id
           /\ after[i].style = before[i].style
           /\ after[i].start_time = Min(before[i].start_time, before[j].start_time)
           /\ after[i].end_time = Max(before[i].end_time, before[j].end_time)
           /\ \A k \in 1..Len(before) :
                /\ (k < j /\ k # i) => after[k] = before[k]
                /\ k > j => after[k - 1] = before[k]]_vars
====
